---- MODULE Spec2Model ----
(***************************************************************************)
(* A model of the AI Agent gateway: the API-key dependency, the request    *)
(* schemas of app/api/schemas.py, the five endpoints of app/api/router.py  *)
(* (with the three adapters of app/core they call), the health endpoint of *)
(* app/main.py, the two streaming generators of app/core/llm.py, and the   *)
(* handlers as coroutines of one worker's event loop.                      *)
(*                                                                         *)
(* Python values: None is the string "None"; a dict is a record holding    *)
(* exactly the keys the code sets; bytes are sequences of numbers; an      *)
(* exception is a record [exc |-> <type>, msg |-> <str(e)>].               *)
(***************************************************************************)
EXTENDS Integers, Sequences, FiniteSets, TLC

VARIABLES
    settings,     \* app.config.settings: API_KEY_ENABLED, API_KEY
    pc,           \* position of the request being handled
    request,      \* the request being handled (headers and body fields)
    response,     \* the HTTP response sent for it, NoResponse until sent
    locals,       \* local variables of the handler that is running
    calls,        \* adapter invocations made for this request, in order
    effects,      \* side effects made for this request: temp files, backend posts
    tempFiles,    \* temporary files that exist on disk
    nextId,       \* number of identifiers (uuid4, temp names) drawn so far
    served,       \* number of requests received so far
    stream,       \* state of one streaming generation (generator and its consumer)
    loop,         \* the tasks of one worker's event loop, for concurrent requests
    adapters      \* adapter invocations in progress step by step, and the disk

vars == <<settings, pc, request, response, locals, calls, effects, tempFiles,
          nextId, served, stream, loop, adapters>>

requestVars == <<settings, pc, request, response, locals, calls, effects,
                 tempFiles, nextId, served>>

gatewayVars == <<requestVars, loop, adapters>>

----------------------------------------------------------------------------
(* Bounds of the model *)

\* Requests handled one after the other in one behaviour.
MaxRequests == 2

\* Lines the backend sends on one streaming connection, at most.
MaxLines == 3

\* Concurrent requests on the connections of one worker.
MaxTasks == 3

\* Adapter invocations that run at the same time on one machine.
MaxInvocations == 2

\* Entries of a conversation history, at most.
MaxHistory == 2

----------------------------------------------------------------------------
(* Python values *)

None == "None"

\* `not v` for an Optional[str]: None and the empty string are falsy.
Falsy(v) == v = None \/ v = ""

\* d.get(key, default) on a dict
Get(d, key, default) == IF key \in DOMAIN d THEN d[key] ELSE default

\* a or b
Or(a, b) == IF Falsy(a) THEN b ELSE a

\* str(uuid.uuid4()): the n-th identifier drawn; no two draws are equal.
uuid4(n) == "job-" \o ToString(n)

\* A temp name that is the same at every draw.
TempNameShared(n, suffix) == "/tmp/tmp" \o suffix

\* tempfile.NamedTemporaryFile(suffix=...).name: the n-th name drawn.
TempName(n, suffix) == "/tmp/tmp" \o ToString(n) \o suffix

\* An exception object: its type and str(e).
Exc(type, msg) == [exc |-> type, msg |-> msg]

----------------------------------------------------------------------------
(* base64.  The encoding is computed as RFC 4648 defines it: three bytes   *)
(* give four characters of six bits each, a last group of one or two bytes *)
(* is padded with "=".  Decoding is its inverse on the byte strings the    *)
(* requests and the engines of the model carry; any other string is        *)
(* rejected, as b64decode rejects a string of a wrong length.              *)

Alphabet ==
    <<"A", "B", "C", "D", "E", "F", "G", "H", "I", "J", "K", "L", "M",
      "N", "O", "P", "Q", "R", "S", "T", "U", "V", "W", "X", "Y", "Z",
      "a", "b", "c", "d", "e", "f", "g", "h", "i", "j", "k", "l", "m",
      "n", "o", "p", "q", "r", "s", "t", "u", "v", "w", "x", "y", "z",
      "0", "1", "2", "3", "4", "5", "6", "7", "8", "9", "+", "/">>

\* The character of a six-bit value.
B64Char(v) == Alphabet[v + 1]

\* The byte strings that occur as audio.
AudioPayloads == {<<>>, <<65>>, <<65, 66>>, <<82, 73, 70>>}

\* An encoder that drops a last group of fewer than three bytes.
RECURSIVE b64encodeWholeGroups(_)
b64encodeWholeGroups(data) ==
    IF Len(data) < 3 THEN ""
    ELSE B64Char(data[1] \div 4)
         \o B64Char((data[1] % 4) * 16 + data[2] \div 16)
         \o B64Char((data[2] % 16) * 4 + data[3] \div 64)
         \o B64Char(data[3] % 64)
         \o b64encodeWholeGroups(SubSeq(data, 4, Len(data)))

\* base64.b64encode(data).decode("utf-8")
RECURSIVE b64encode(_)
b64encode(data) ==
    CASE Len(data) = 0 -> ""
      [] Len(data) = 1 ->
           B64Char(data[1] \div 4) \o B64Char((data[1] % 4) * 16) \o "=="
      [] Len(data) = 2 ->
           B64Char(data[1] \div 4)
           \o B64Char((data[1] % 4) * 16 + data[2] \div 16)
           \o B64Char((data[2] % 16) * 4) \o "="
      [] OTHER ->
           B64Char(data[1] \div 4)
           \o B64Char((data[1] % 4) * 16 + data[2] \div 16)
           \o B64Char((data[2] % 16) * 4 + data[3] \div 64)
           \o B64Char(data[3] % 64)
           \o b64encode(SubSeq(data, 4, Len(data)))

\* base64.b64decode(s): the bytes, or the binascii.Error it raises.
b64decode(s) ==
    IF \E data \in AudioPayloads : b64encode(data) = s
    THEN [ok |-> TRUE,
          data |-> CHOOSE data \in AudioPayloads : b64encode(data) = s]
    ELSE [ok |-> FALSE, error |-> Exc("binascii.Error", "Incorrect padding")]

----------------------------------------------------------------------------
(* HTTP responses *)

NoResponse == [status |-> 0]

\* An error response that replaces the detail it is given by a fixed text.
HTTPExceptionWithFixedDetail(status_code, detail) ==
    [status |-> status_code, kind |-> "error",
     body |-> [detail |-> "Internal Server Error"]]

\* raise HTTPException(status_code, detail): FastAPI answers {"detail": detail}.
HTTPException(status_code, detail) ==
    [status |-> status_code, kind |-> "error", body |-> [detail |-> detail]]

JSONResponse(kind, body) == [status |-> 200, kind |-> kind, body |-> body]

----------------------------------------------------------------------------
(* Transcription adapter: app/core/stt.py *)

\* str.strip() on the texts the engine prints.
strip(s) ==
    CASE s = " hi\n" -> "hi"
      [] s = "hi there\n" -> "hi there"
      [] s = "\n" -> ""
      [] OTHER -> s

\* What the filesystem and the whisper.cpp process do in one call: the audio
\* temp file, the exit of the engine, what it printed, and the text file it
\* wrote next to the audio file (None: no file; "\\xff": bytes that
\* open(txt_path, 'r').read() cannot decode).
STTEnvs ==
    [tmp : {"ok", "create_error", "write_error"},
     engine : {"exit0", "exit1", "oserror"},
     stdout : {" hi\n", "\n"},
     txt : {None, "hi there\n", "\\xff"}]

\* SpeechToTextService.transcribe: the dict returned, the temp files created
\* and the temp files still on disk when the call returns.  n numbers the
\* identifiers drawn for this call.
transcribe(n, audio_data, language, env) ==
    LET job_id == uuid4(n)
        temp_path == TempName(n, ".wav")
        txt_path == temp_path \o ".txt"
        failure(e) == [job_id |-> job_id, error |-> e.msg, success |-> FALSE]
    IN  CASE env.tmp = "create_error" ->
               \* NamedTemporaryFile raised: temp_path is not in locals()
               [outcome |-> "return",
                value |-> failure(Exc("OSError", "[Errno 28] No space left on device")),
                created |-> {}, left |-> {}]
          [] env.tmp = "write_error" ->
               [outcome |-> "return",
                value |-> failure(Exc("OSError", "[Errno 28] No space left on device")),
                created |-> {temp_path}, left |-> {}]
          [] env.engine = "oserror" ->
               [outcome |-> "return",
                value |-> failure(Exc("FileNotFoundError",
                                      "[Errno 2] No such file or directory: whisper.cpp/main")),
                created |-> {temp_path}, left |-> {}]
          [] env.engine = "exit1" ->
               [outcome |-> "return",
                value |-> failure(Exc("RuntimeError",
                                      "Whisper transcription failed: " \o "bad audio")),
                created |-> {temp_path} \cup (IF env.txt = None THEN {} ELSE {txt_path}),
                left |-> IF env.txt = None THEN {} ELSE {txt_path}]
          [] env.txt = "\\xff" ->
               \* f.read() raised before os.unlink(txt_path)
               [outcome |-> "return",
                value |-> failure(Exc("UnicodeDecodeError",
                                      "'utf-8' codec can't decode byte 0xff in position 0")),
                created |-> {temp_path, txt_path}, left |-> {txt_path}]
          [] OTHER ->
               [outcome |-> "return",
                value |-> [job_id |-> job_id,
                           text |-> IF env.txt = None THEN strip(env.stdout)
                                    ELSE strip(env.txt),
                           language |-> Or(language, "auto"),
                           success |-> TRUE],
                created |-> {temp_path} \cup (IF env.txt = None THEN {} ELSE {txt_path}),
                left |-> {}]

----------------------------------------------------------------------------
(* Generation adapter, single shot: app/core/llm.py *)

OLLAMA_MODEL == "agent-model:latest"

\* What the backend connection does for one POST /api/generate.
\*   invalid_json_new / invalid_json_old: a body that is not JSON, where
\*   response.json() raises requests.exceptions.JSONDecodeError (a
\*   RequestException, requests >= 2.27) or a plain ValueError (older).
LLMEnvs ==
    {"ok", "ok_no_text", "connection_error", "timeout", "http_error",
     "invalid_json_new", "invalid_json_old", "not_object", "null_counts"}

\* The default of max_tokens, in GenerationRequest and in generate.
DefaultMaxTokens == 1024

\* The payload generate and generate_async post to the backend.  A
\* temperature is written in tenths (7 is 0.7).
Payload(prompt, system_prompt, temperature, max_tokens, stream_flag) ==
    LET options == [temperature |-> temperature, num_predict |-> max_tokens]
    IN  IF Falsy(system_prompt)
        THEN [model |-> OLLAMA_MODEL, prompt |-> prompt, stream |-> stream_flag,
              options |-> options]
        ELSE [model |-> OLLAMA_MODEL, prompt |-> prompt, stream |-> stream_flag,
              options |-> options, system |-> system_prompt]

\* A generation whose failure dict also carries the text received so far.
generateWithPartialText(n, prompt, system_prompt, temperature, max_tokens, env) ==
    [outcome |-> "return",
     value |-> [job_id |-> uuid4(n), text |-> "", error |-> "Connection refused",
                success |-> FALSE],
     payload |-> Payload(prompt, system_prompt, temperature, max_tokens, FALSE)]

\* LanguageModelService.generate with stream=False: the dict returned, or the
\* exception that leaves the call.
generate(n, prompt, system_prompt, temperature, max_tokens, env) ==
    LET job_id == uuid4(n)
        payload == Payload(prompt, system_prompt, temperature, max_tokens, FALSE)
        failure(msg) == [outcome |-> "return",
                         value |-> [job_id |-> job_id, error |-> msg, success |-> FALSE],
                         payload |-> payload]
        raised(e) == [outcome |-> "raise", exc |-> e, payload |-> payload]
    IN  CASE env = "connection_error" -> failure("Connection refused")
          [] env = "timeout" -> failure("Read timed out. (read timeout=60)")
          [] env = "http_error" -> failure("500 Server Error: Internal Server Error")
          [] env = "invalid_json_new" -> failure("Expecting value: line 1 column 1 (char 0)")
          [] env = "invalid_json_old" ->
               raised(Exc("ValueError", "Expecting value: line 1 column 1 (char 0)"))
          [] env = "not_object" ->
               raised(Exc("AttributeError", "'list' object has no attribute 'get'"))
          [] env = "null_counts" ->
               raised(Exc("TypeError",
                          "unsupported operand type(s) for +: 'NoneType' and 'int'"))
          [] OTHER ->
               [outcome |-> "return",
                value |-> [job_id |-> job_id,
                           text |-> IF env = "ok" THEN "4" ELSE "",
                           model |-> OLLAMA_MODEL,
                           success |-> TRUE,
                           finish_reason |-> "stop"],
                payload |-> payload]

----------------------------------------------------------------------------
(* Synthesis adapter: app/core/tts.py *)

\* What the filesystem and the piper process do in one call.
TTSEnvs ==
    [tmp : {"ok", "create_error"},
     engine : {"exit0", "exit1", "oserror"},
     audio : {<<82, 73, 70>>, <<65>>}]

\* TextToSpeechService.synthesize
synthesize(n, text, speaker, output_format, env) ==
    LET job_id == uuid4(n)
        output_path == TempName(n, "." \o output_format)
        failure(e) == [job_id |-> job_id, error |-> e.msg, success |-> FALSE]
    IN  CASE env.tmp = "create_error" ->
               [outcome |-> "return",
                value |-> failure(Exc("OSError", "[Errno 28] No space left on device")),
                created |-> {}, left |-> {}]
          [] env.engine = "oserror" ->
               [outcome |-> "return",
                value |-> failure(Exc("FileNotFoundError",
                                      "[Errno 2] No such file or directory: piper/piper")),
                created |-> {output_path}, left |-> {}]
          [] env.engine = "exit1" ->
               [outcome |-> "return",
                value |-> failure(Exc("RuntimeError",
                                      "TTS synthesis failed: " \o "no voice")),
                created |-> {output_path}, left |-> {}]
          [] OTHER ->
               [outcome |-> "return",
                value |-> [job_id |-> job_id,
                           audio_data |-> env.audio,
                           format |-> output_format,
                           success |-> TRUE],
                created |-> {output_path}, left |-> {}]


----------------------------------------------------------------------------
(* Requests *)

\* X-API-Key header values: absent, empty, the configured secret, another one.
HeaderValues == {None, "", "k1", "k2"}

\* A request with every optional field at its schema default.
BaseRequest(endpoint, key) ==
    [endpoint |-> endpoint, x_api_key |-> key, has_body |-> TRUE,
     audio_base64 |-> None, file |-> None, language |-> None,
     text |-> None, prompt |-> None, system_prompt |-> None,
     return_audio |-> TRUE, stream |-> FALSE,
     speaker |-> None, output_format |-> "wav",
     temperature |-> 7, max_tokens |-> DefaultMaxTokens, image |-> None]

\* ProcessRequest (with "Q", a base64 string of a wrong length).  A body
\* either leaves language, system_prompt and temperature at their defaults,
\* or sets them and attaches an image (a key the schema does not declare).
ProcessRequests(key) ==
    {[BaseRequest("process", key) EXCEPT !.audio_base64 = a, !.text = t,
                                           !.return_audio = ra, !.language = o[1],
                                           !.system_prompt = o[2],
                                           !.temperature = o[3], !.image = o[4]] :
        a \in {None, "", "QQ==", "Q"}, t \in {None, "2+2?"}, ra \in BOOLEAN,
        o \in {<<None, None, 7, None>>, <<"en", "be brief", 2, "UklG">>}}

\* GenerationRequest; a "stream" key of the body is kept here although the
\* schema declares no such field (pydantic ignores it).
GenerationRequests(key) ==
    {[BaseRequest("generate", key) EXCEPT !.prompt = "hi", !.stream = st] :
        st \in BOOLEAN}

\* SynthesisRequest, for /synthesize and /synthesize/stream
SynthesisRequests(endpoint, key) ==
    {[BaseRequest(endpoint, key) EXCEPT !.text = "4", !.speaker = sp,
                                         !.output_format = f] :
        sp \in {None, "amy"}, f \in {"wav", "mp3"}}

\* TranscriptionRequest body and/or file upload
TranscriptionRequests(key) ==
    {[BaseRequest("transcribe", key) EXCEPT
          !.has_body = hb, !.audio_base64 = a, !.file = f,
          !.language = IF f = None THEN None ELSE "en"] :
        hb \in BOOLEAN, a \in {None, "QUI="}, f \in {None, "upload.wav"}}

Requests ==
    UNION {ProcessRequests(k) \cup GenerationRequests(k)
           \cup SynthesisRequests("synthesize", k)
           \cup SynthesisRequests("synthesize_stream", k)
           \cup TranscriptionRequests(k)
           \cup {BaseRequest("health", k)} : k \in HeaderValues}

\* await file.read() on the uploaded file
FileRead(file) == <<82, 73, 70>>

NoLocals == [input_text |-> None, job_id |-> None, output_text |-> None]

NoEffects == [temp_created |-> 0, backend_posts |-> 0]

\* One adapter invocation as the handler made it.
Call(adapter, args, out) ==
    [adapter |-> adapter, args |-> args, outcome |-> out.outcome,
     result |-> IF out.outcome = "return" THEN out.value ELSE out.exc]

----------------------------------------------------------------------------
(* The API-key dependency: app/api/router.py *)

Passed == [status |-> 0, kind |-> "passed"]

\* validate_api_key without its comparison with the configured secret.
validate_api_key_presence_only(x_api_key) ==
    IF settings.API_KEY_ENABLED /\ Falsy(x_api_key)
    THEN HTTPException(401, "API key is required")
    ELSE Passed

\* validate_api_key that checks nothing while no secret is configured.
validate_api_key_open_when_unset(x_api_key) ==
    IF settings.API_KEY_ENABLED /\ settings.API_KEY # None
    THEN IF Falsy(x_api_key)
         THEN HTTPException(401, "API key is required")
         ELSE IF x_api_key # settings.API_KEY
              THEN HTTPException(401, "Invalid API key")
              ELSE Passed
    ELSE Passed

\* validate_api_key: Passed, or the HTTPException it raises.
validate_api_key(x_api_key) ==
    IF settings.API_KEY_ENABLED
    THEN IF Falsy(x_api_key)
         THEN HTTPException(401, "API key is required")
         ELSE IF x_api_key # settings.API_KEY
              THEN HTTPException(401, "Invalid API key")
              ELSE Passed
    ELSE Passed

\* RequestValidationError: FastAPI answers 422 with the list of the fields
\* that were rejected.
ValidationError(errors) ==
    [status |-> 422, kind |-> "validation", body |-> [detail |-> errors]]

\* TranscriptionRequest.validate_audio, run on a supplied audio_base64.
validate_audio(v) ==
    IF v = None \/ b64decode(v).ok
    THEN [ok |-> TRUE]
    ELSE [ok |-> FALSE, msg |-> "Invalid base64 encoding for audio data"]

\* ProcessRequest.validate_input(cls, v, values).  pydantic runs a field's
\* validator only when the request supplies that field, and hands it, as
\* `values`, the fields declared before it that were accepted (a field the
\* request does not supply is accepted with its default).  `values` is
\* given here by its keys.
validate_input(v, values) ==
    IF "audio_base64" \notin values /\ "text" \notin values
    THEN [ok |-> FALSE, msg |-> "Either audio_base64 or text must be provided"]
    ELSE [ok |-> TRUE]

\* The fields of a /process body that validation rejects, in the order of
\* their declaration: audio_base64 is declared first, text second.
ProcessRequestErrors(req) ==
    LET audio == IF req.audio_base64 = None THEN [ok |-> TRUE]
                 ELSE validate_input(req.audio_base64, {})
        values == IF audio.ok THEN {"audio_base64"} ELSE {}
        text == IF req.text = None THEN [ok |-> TRUE]
                ELSE validate_input(req.text, values)
    IN  (IF audio.ok THEN <<>>
         ELSE <<[loc |-> <<"body", "audio_base64">>, msg |-> audio.msg]>>)
        \o (IF text.ok THEN <<>>
            ELSE <<[loc |-> <<"body", "text">>, msg |-> text.msg]>>)

\* The fields of the body of a request that validation rejects.
BodyErrors(req) ==
    CASE req.endpoint = "process" -> ProcessRequestErrors(req)
      [] req.endpoint = "transcribe" /\ req.has_body ->
           LET audio == validate_audio(req.audio_base64)
           IN  IF audio.ok THEN <<>>
               ELSE <<[loc |-> <<"body", "audio_base64">>, msg |-> audio.msg]>>
      [] OTHER -> <<>>

\* The response_model of each endpoint: the fields of the schema, a missing
\* optional field at its default.
TranscriptionResponse(d) ==
    [job_id |-> d.job_id, text |-> d.text, language |-> d.language,
     success |-> d.success, error |-> Get(d, "error", None)]

GenerationResponse(d) ==
    [job_id |-> d.job_id, text |-> d.text, model |-> d.model,
     success |-> d.success, error |-> Get(d, "error", None)]

SynthesisResponse(d) ==
    [job_id |-> d.job_id, audio_base64 |-> Get(d, "audio_base64", None),
     format |-> d.format, success |-> d.success, error |-> Get(d, "error", None)]

ProcessResponse(d) ==
    [job_id |-> d.job_id, input_text |-> Get(d, "input_text", None),
     output_text |-> d.output_text, audio_base64 |-> Get(d, "audio_base64", None),
     format |-> Get(d, "format", None), success |-> d.success,
     error |-> Get(d, "error", None)]

\* generic_exception_handler of app/main.py: the answer to an exception that
\* leaves a handler.
generic_exception_handler(e) ==
    [status |-> 500, kind |-> "error",
     body |-> [detail |-> "An unexpected error occurred."]]

\* `except Exception as e: raise HTTPException(500, detail=str(e))`
UnexpectedError(e) == HTTPException(500, e.msg)

\* `if not result["success"]:` after an adapter call
Failed(result) == ~result.success

\* process without its checks of the stages' results.
StageFailedIgnored(result) == FALSE

\* `if not stt_result["success"]:`, `if not llm_result["success"]:` and
\* `if not tts_result["success"]:` in process: the stage failed, the run aborts.
StageFailed(result) == ~result.success

\* `if request.audio_base64:` in process: the run is an audio run
IsAudioRun(req) == ~Falsy(req.audio_base64)

\* process synthesizing whatever the request asks for.
WantsAudioAlways(req) == TRUE

\* `if request.return_audio:` in process
WantsAudio(req) == req.return_audio


----------------------------------------------------------------------------
(* The gateway: one request at a time, from its arrival to its response *)

NoRequest == BaseRequest("none", None)

\* The streaming generator before any call: which generator it is, where it
\* stands, the lines it has read from the backend, the events it has yielded
\* to its consumer, its backend connection, how it ended, where it failed and
\* the type of the exception it failed with.
NoStream ==
    [impl |-> "none", pc |-> "none", read |-> <<>>, events |-> <<>>,
     conn |-> "none", failure |-> "none", fault |-> "none", exc |-> "none",
     logged |-> FALSE]

\* The requests one worker process serves concurrently.  Each of the
\* API_WORKERS processes uvicorn starts runs one event loop on one thread; a
\* request belongs to the worker that owns its connection.
Tasks == 1 .. MaxTasks

\* No request has arrived at the worker.
NoLoop == [t \in Tasks |-> [st |-> "none", stage |-> 0, read |-> FALSE]]

\* The invocations of transcribe and synthesize that run at the same time,
\* in the threads and worker processes of one machine.
Invocations == 1 .. MaxInvocations

\* A temp directory without files: the contents of the files, by name.
EmptyDisk == [f \in {} |-> <<>>]

\* The module-level service instances of the router and what __init__ set.
Services ==
    [stt |-> [model_path |-> "models/whisper/ggml-large.bin", num_threads |-> 4],
     llm |-> [base_url |-> "http://localhost:11434/api", model |-> OLLAMA_MODEL],
     tts |-> [model_path |-> "models/tts/en-us-kathleen-high.onnx", num_threads |-> 4]]

\* The resources the adapters need, all available: the two model files and
\* the generation backend.
GoodWorld == [stt |-> "present", llm |-> "up", tts |-> "present"]

\* An invocation that has not started: its adapter, where it stands, the
\* number of its identifiers, what its environment did so far, whether its
\* local temp path is bound, and the dict it returns.
NoInvocation ==
    [adapter |-> "none", pc |-> "none", n |-> 0, env |-> <<>>,
     has_path |-> FALSE, result |-> <<>>]

\* No invocation has started: the router module has been imported with
\* every resource available (the services as constructed, the resource each
\* constructor saw, no adapter called yet), an empty temp directory, and the
\* log of who created and who used which file.
NoAdapters ==
    [service |-> Services, files |-> EmptyDisk, drawn |-> 0,
     created |-> {}, touched |-> {},
     call |-> [k \in Invocations |-> NoInvocation],
     world |-> GoodWorld, router |-> "imported", import_error |-> None,
     seen |-> GoodWorld, invoked |-> {}]

Init ==
    /\ settings \in [API_KEY_ENABLED : BOOLEAN, API_KEY : {None, "k1"}]
    /\ pc = "idle"
    /\ request = NoRequest
    /\ response = NoResponse
    /\ locals = NoLocals
    /\ calls = <<>>
    /\ effects = NoEffects
    /\ tempFiles = {}
    /\ nextId = 0
    /\ served = 0
    /\ stream = NoStream
    /\ loop = NoLoop
    /\ adapters = NoAdapters

\* A request arrives (the previous one, if any, has been answered).
Receive ==
    /\ pc \in {"idle", "done"}
    /\ served < MaxRequests
    /\ request' \in Requests
    /\ pc' = "received"
    /\ response' = NoResponse
    /\ locals' = NoLocals
    /\ calls' = <<>>
    /\ effects' = NoEffects
    /\ served' = served + 1
    /\ UNCHANGED <<settings, tempFiles, nextId, stream, loop,
                   adapters>>

\* The handler ends: the response is sent.
Respond(r) ==
    /\ response' = r
    /\ pc' = "done"

\* An adapter was called: the call is recorded with what it did to the disk
\* and the backend.
Invoke(adapter, args, out, posts) ==
    /\ calls' = Append(calls, Call(adapter, args, out))
    /\ effects' = [temp_created |-> effects.temp_created
                                    + (IF "created" \in DOMAIN out
                                       THEN Cardinality(out.created) ELSE 0),
                   backend_posts |-> effects.backend_posts + posts]
    /\ tempFiles' = tempFiles \cup (IF "left" \in DOMAIN out THEN out.left ELSE {})
    /\ nextId' = nextId + 1

\* health_check of app/main.py: no dependency, no adapter.
health_check ==
    /\ pc = "received"
    /\ request.endpoint = "health"
    /\ Respond(JSONResponse("health", [status |-> "healthy", version |-> "1.0.0"]))
    /\ UNCHANGED <<settings, request, locals, calls, effects, tempFiles, nextId,
                   served, stream, loop,
                   adapters>>

\* Depends(validate_api_key), resolved before the handler's body runs.
Authenticate ==
    /\ pc = "received"
    /\ request.endpoint # "health"
    /\ LET r == validate_api_key(request.x_api_key)
       IN  IF r = Passed
           THEN pc' = "authenticated" /\ UNCHANGED response
           ELSE Respond(r)
    /\ UNCHANGED <<settings, request, locals, calls, effects, tempFiles, nextId,
                   served, stream, loop,
                   adapters>>

\* The body is validated against the schema of the endpoint, after the
\* dependencies and before the handler's body runs.
ValidateBody ==
    /\ pc = "authenticated"
    /\ LET errors == BodyErrors(request)
       IN  IF errors = <<>>
           THEN pc' = "handler" /\ UNCHANGED response
           ELSE Respond(ValidationError(errors))
    /\ UNCHANGED <<settings, request, locals, calls, effects, tempFiles, nextId,
                   served, stream, loop,
                   adapters>>

\* process surfacing the job_id of the stage that ran last.
ProcessResultOfLastStage(loc, audio_base64, audio_format) ==
    [job_id |-> uuid4(nextId + 1), input_text |-> loc.input_text,
     output_text |-> loc.output_text, audio_base64 |-> audio_base64,
     format |-> audio_format, success |-> TRUE]

\* The dict process returns on success.
ProcessResult(loc, audio_base64, audio_format) ==
    [job_id |-> loc.job_id, input_text |-> loc.input_text,
     output_text |-> loc.output_text, audio_base64 |-> audio_base64,
     format |-> audio_format, success |-> TRUE]

\* process, step 1: speech-to-text if audio was provided, else the text.
\* (ValidateBody lets no body with an audio_base64 through, so over HTTP the
\* handler only ever takes the else branch.)
process_transcription ==
    /\ pc = "handler"
    /\ request.endpoint = "process"
    /\ IF IsAudioRun(request)
       THEN LET audio_bytes == b64decode(request.audio_base64)
            IN  IF ~audio_bytes.ok
                THEN /\ Respond(UnexpectedError(audio_bytes.error))
                     /\ UNCHANGED <<locals, calls, effects, tempFiles, nextId>>
                ELSE \E env \in STTEnvs :
                       LET args == [audio_data |-> audio_bytes.data,
                                    language |-> request.language]
                           out == transcribe(nextId + 1, args.audio_data,
                                             args.language, env)
                           stt_result == out.value
                       IN  /\ Invoke("transcribe", args, out, 0)
                           /\ IF StageFailed(stt_result)
                              THEN /\ Respond(HTTPException(500,
                                        Get(stt_result, "error", "Transcription failed")))
                                   /\ UNCHANGED locals
                              ELSE /\ locals' = [locals EXCEPT
                                                   !.input_text = Get(stt_result, "text", None),
                                                   !.job_id = stt_result.job_id]
                                   /\ pc' = "p_llm"
                                   /\ UNCHANGED response
       ELSE /\ locals' = [locals EXCEPT !.input_text = request.text]
            /\ pc' = "p_llm"
            /\ UNCHANGED <<response, calls, effects, tempFiles, nextId>>
    /\ UNCHANGED <<settings, request, served, stream, loop,
                   adapters>>

\* process, step 2: the language model; the response if no audio is wanted.
process_generation ==
    /\ pc = "p_llm"
    /\ \E env \in LLMEnvs :
         LET args == [prompt |-> locals.input_text,
                      system_prompt |-> request.system_prompt,
                      temperature |-> request.temperature]
             out == generate(nextId + 1, args.prompt, args.system_prompt,
                             args.temperature, DefaultMaxTokens, env)
         IN  /\ Invoke("generate", args, out, 1)
             /\ IF out.outcome = "raise"
                THEN Respond(UnexpectedError(out.exc)) /\ UNCHANGED locals
                ELSE IF StageFailed(out.value)
                THEN /\ Respond(HTTPException(500,
                          Get(out.value, "error", "Text generation failed")))
                     /\ UNCHANGED locals
                ELSE LET loc == [locals EXCEPT
                                   !.output_text = Get(out.value, "text", None),
                                   !.job_id = Or(locals.job_id, out.value.job_id)]
                     IN  /\ locals' = loc
                         /\ IF WantsAudio(request)
                            THEN pc' = "p_tts" /\ UNCHANGED response
                            ELSE Respond(JSONResponse("process",
                                   ProcessResponse(ProcessResult(loc, None, None))))
    /\ UNCHANGED <<settings, request, served, stream, loop,
                   adapters>>

\* process, step 3: text-to-speech, and the response.
process_synthesis ==
    /\ pc = "p_tts"
    /\ \E env \in TTSEnvs :
         LET args == [text |-> locals.output_text, speaker |-> None,
                      output_format |-> "wav"]
             out == synthesize(nextId + 1, args.text, args.speaker,
                               args.output_format, env)
             tts_result == out.value
         IN  /\ Invoke("synthesize", args, out, 0)
             /\ IF StageFailed(tts_result)
                THEN Respond(HTTPException(500,
                       Get(tts_result, "error", "Speech synthesis failed")))
                ELSE Respond(JSONResponse("process",
                       ProcessResponse(ProcessResult(locals,
                           b64encode(Get(tts_result, "audio_data", <<>>)),
                           Get(tts_result, "format", None)))))
    /\ UNCHANGED <<settings, request, locals, served, stream, loop,
                   adapters>>


\* The /transcribe handler.
transcribe_endpoint ==
    /\ pc = "handler"
    /\ request.endpoint = "transcribe"
    /\ IF ~request.has_body /\ request.file = None
       THEN /\ Respond(HTTPException(400,
                 "Either request body or file upload is required"))
            /\ UNCHANGED <<calls, effects, tempFiles, nextId>>
       ELSE IF request.file = None /\ Falsy(request.audio_base64)
       THEN /\ Respond(HTTPException(400, "audio_base64 is required in request body"))
            /\ UNCHANGED <<calls, effects, tempFiles, nextId>>
       ELSE \E env \in STTEnvs :
              LET args == [audio_data |-> IF request.file # None
                                          THEN FileRead(request.file)
                                          ELSE b64decode(request.audio_base64).data,
                           language |-> request.language]
                  out == transcribe(nextId + 1, args.audio_data, args.language, env)
                  result == out.value
              IN  /\ Invoke("transcribe", args, out, 0)
                  /\ IF Failed(result)
                     THEN Respond(HTTPException(500,
                            Get(result, "error", "Transcription failed")))
                     ELSE Respond(JSONResponse("transcription",
                            TranscriptionResponse(result)))
    /\ UNCHANGED <<settings, request, locals, served, stream, loop,
                   adapters>>

\* The /generate handler: llm_service.generate is called without `stream`.
generate_endpoint ==
    /\ pc = "handler"
    /\ request.endpoint = "generate"
    /\ \E env \in LLMEnvs :
         LET args == [prompt |-> request.prompt,
                      system_prompt |-> request.system_prompt,
                      temperature |-> request.temperature,
                      max_tokens |-> request.max_tokens]
             out == generate(nextId + 1, args.prompt, args.system_prompt,
                             args.temperature, args.max_tokens, env)
         IN  /\ Invoke("generate", args, out, 1)
             /\ IF out.outcome = "raise"
                THEN Respond(UnexpectedError(out.exc))
                ELSE IF Failed(out.value)
                THEN Respond(HTTPException(500,
                       Get(out.value, "error", "Text generation failed")))
                ELSE Respond(JSONResponse("generation", GenerationResponse(out.value)))
    /\ UNCHANGED <<settings, request, locals, served, stream, loop,
                   adapters>>

\* What synthesize returns for a successful result of the adapter:
\* {**result, "audio_base64": base64.b64encode(result["audio_data"])...},
\* filtered by the response model.
SynthesisJSON(result) ==
    JSONResponse("synthesis",
        SynthesisResponse([job_id |-> result.job_id,
                           format |-> result.format,
                           success |-> result.success,
                           audio_base64 |-> b64encode(result.audio_data)]))

\* What synthesize_stream returns for a successful result of the adapter:
\* StreamingResponse(io.BytesIO(result["audio_data"]), ...), the raw bytes
\* as an attachment.
StreamingResponse(req, result) ==
    [status |-> 200, kind |-> "audio",
     body |-> result.audio_data,
     media_type |-> IF req.output_format = "wav" THEN "audio/wav" ELSE "audio/mpeg",
     disposition |-> "attachment; filename=speech." \o req.output_format]

\* The /synthesize handler.
synthesize_endpoint ==
    /\ pc = "handler"
    /\ request.endpoint = "synthesize"
    /\ \E env \in TTSEnvs :
         LET args == [text |-> request.text, speaker |-> request.speaker,
                      output_format |-> request.output_format]
             out == synthesize(nextId + 1, args.text, args.speaker,
                               args.output_format, env)
             result == out.value
         IN  /\ Invoke("synthesize", args, out, 0)
             /\ IF Failed(result)
                THEN Respond(HTTPException(500,
                       Get(result, "error", "Speech synthesis failed")))
                ELSE Respond(SynthesisJSON(result))
    /\ UNCHANGED <<settings, request, locals, served, stream, loop,
                   adapters>>

\* The /synthesize/stream handler: the raw bytes, as an attachment.
synthesize_stream ==
    /\ pc = "handler"
    /\ request.endpoint = "synthesize_stream"
    /\ \E env \in TTSEnvs :
         LET args == [text |-> request.text, speaker |-> request.speaker,
                      output_format |-> request.output_format]
             out == synthesize(nextId + 1, args.text, args.speaker,
                               args.output_format, env)
             result == out.value
         IN  /\ Invoke("synthesize", args, out, 0)
             /\ IF Failed(result)
                THEN Respond(HTTPException(500,
                       Get(result, "error", "Speech synthesis failed")))
                ELSE Respond(StreamingResponse(request, result))
    /\ UNCHANGED <<settings, request, locals, served, stream, loop,
                   adapters>>

Next ==
    \/ Receive
    \/ health_check
    \/ Authenticate
    \/ ValidateBody
    \/ transcribe_endpoint
    \/ generate_endpoint
    \/ synthesize_endpoint
    \/ synthesize_stream
    \/ process_transcription
    \/ process_generation
    \/ process_synthesis

Spec == Init /\ [][Next]_vars


----------------------------------------------------------------------------
(* Streaming generation: app/core/llm.py.  Two generators exist:           *)
(* _handle_streaming (returned by generate(stream=True), on requests) and  *)
(* generate_async (on aiohttp).  The consumer drives the generator; every  *)
(* action below is the code that runs between two points where the        *)
(* generator is suspended or has ended.                                    *)

Impls == {"_handle_streaming", "generate_async"}

\* The lines a backend connection can deliver: a JSON object with text, a
\* JSON object with no text (such as a closing status line), an empty line,
\* a line that is not JSON, and a JSON value that is not an object.
Lines ==
    {[kind |-> "text", text |-> "a"], [kind |-> "text", text |-> "b"],
     [kind |-> "object", text |-> ""], [kind |-> "blank", text |-> ""],
     [kind |-> "garbage", text |-> ""], [kind |-> "not_object", text |-> ""]}

\* Exceptions of the transport: opening the connection, its HTTP status,
\* reading a line, closing.
OpenErrors ==
    {Exc("ConnectionError", "Connection refused"),
     Exc("Timeout", "Read timed out. (read timeout=120)"),
     Exc("HTTPError", "500 Server Error: Internal Server Error")}

ReadErrors ==
    {Exc("ChunkedEncodingError", "Connection broken: IncompleteRead"),
     Exc("Timeout", "Read timed out. (read timeout=120)")}

CloseErrors ==
    {Exc("ConnectionError", "Connection reset by peer"),
     Exc("OSError", "[Errno 9] Bad file descriptor")}

\* isinstance(e, requests.RequestException)
IsRequestException(e) ==
    e.exc \in {"ConnectionError", "Timeout", "HTTPError", "ChunkedEncodingError"}

\* An event that has lost the text of its line.
ChunkEventWithoutText(text_chunk) == [text |-> "", finish_reason |-> None]

\* The event yielded for one parsed line.
ChunkEvent(text_chunk) == [text |-> text_chunk, finish_reason |-> None]

\* The event yielded when the backend has sent its last line.
StopEvent == [text |-> "", finish_reason |-> "stop"]

\* The event generate_async yields from its except clause.
ErrorEvent(e) == [text |-> "", error |-> e.msg, finish_reason |-> "error"]

\* json.loads(line) and chunk.get("response", ""): the text, or the exception.
ParseLine(line) ==
    CASE line.kind = "garbage" ->
           [ok |-> FALSE,
            error |-> Exc("JSONDecodeError", "Expecting value: line 1 column 1 (char 0)")]
      [] line.kind = "blank" ->
           \* aiohttp hands the line over with its line break: not JSON
           [ok |-> FALSE,
            error |-> Exc("JSONDecodeError", "Expecting value: line 2 column 1 (char 1)")]
      [] line.kind = "not_object" ->
           [ok |-> FALSE,
            error |-> Exc("AttributeError", "'list' object has no attribute 'get'")]
      [] OTHER -> [ok |-> TRUE, text |-> line.text]

\* The except clause of each generator, for an exception raised inside its
\* try block: the events it yields and how the generator ends.
\*   _handle_streaming: `except requests.RequestException` returns a dict
\*   (the generator just ends); anything else leaves the generator.
\*   generate_async: `except Exception` yields one error event.
\* Both except clauses log the exception (logger.exception).
Except(impl, e) ==
    IF impl = "generate_async"
    THEN [events |-> <<ErrorEvent(e)>>, outcome |-> "error_event", logged |-> TRUE]
    ELSE IF IsRequestException(e)
    THEN [events |-> <<>>, outcome |-> "returned_failure", logged |-> TRUE]
    ELSE [events |-> <<>>, outcome |-> "raised", logged |-> FALSE]

\* The body of the loop over the lines, for one line: the events yielded, or
\* the exception raised in the try block.
\*   _handle_streaming: `if line:` skips an empty line, the rest is parsed.
\*   generate_async: a json.JSONDecodeError is skipped (`continue`).
OnLine(impl, line) ==
    LET parsed == ParseLine(line)
    IN  IF impl = "_handle_streaming" /\ line.kind = "blank"
        THEN [events |-> <<>>, raised |-> FALSE]
        ELSE IF parsed.ok
        THEN [events |-> <<ChunkEvent(parsed.text)>>, raised |-> FALSE]
        ELSE IF impl = "generate_async" /\ parsed.error.exc = "JSONDecodeError"
        THEN [events |-> <<>>, raised |-> FALSE]
        ELSE [events |-> <<>>, raised |-> TRUE, error |-> parsed.error]

\* A generator that ends without its terminal event.
OnEofSilent(impl) == <<>>

\* What is yielded once the loop over the lines has ended.
OnEof(impl) == <<StopEvent>>

InitStream ==
    /\ settings = [API_KEY_ENABLED |-> TRUE, API_KEY |-> "k1"]
    /\ pc = "idle"
    /\ request = NoRequest
    /\ response = NoResponse
    /\ locals = NoLocals
    /\ calls = <<>>
    /\ effects = NoEffects
    /\ tempFiles = {}
    /\ nextId = 0
    /\ served = 0
    /\ stream = NoStream
    /\ loop = NoLoop
    /\ adapters = NoAdapters

\* The generator leaves its try block with exception e (fault says where).
Raise(e, fault) ==
    LET x == Except(stream.impl, e)
    IN  stream' = [stream EXCEPT
                     !.events = stream.events \o x.events,
                     !.conn = IF stream.conn = "open" \/ e.exc = "HTTPError"
                              THEN "closed" ELSE stream.conn,
                     !.pc = "ended",
                     !.failure = x.outcome,
                     !.fault = fault,
                     !.exc = e.exc,
                     !.logged = x.logged]

\* generate(stream=True) or generate_async is called: a generator is
\* created, none of its body has run.
StartStream ==
    /\ stream.pc = "none"
    /\ \E impl \in Impls :
         stream' = [stream EXCEPT !.impl = impl, !.pc = "created"]
    /\ UNCHANGED gatewayVars

\* The consumer asks for the first event: the POST is sent and the status
\* checked (raise_for_status).
OpenConnection ==
    /\ stream.pc = "created"
    /\ \/ stream' = [stream EXCEPT !.conn = "open", !.pc = "reading"]
       \/ \E e \in OpenErrors : Raise(e, "open")
    /\ UNCHANGED gatewayVars

\* The backend delivers a line.
ReadLine ==
    /\ stream.pc = "reading"
    /\ Len(stream.read) < MaxLines
    /\ \E line \in Lines :
         LET r == OnLine(stream.impl, line)
         IN  IF r.raised
             THEN LET x == Except(stream.impl, r.error)
                  IN  stream' = [stream EXCEPT
                                   !.read = Append(stream.read, line),
                                   !.events = stream.events \o x.events,
                                   !.conn = "closed",
                                   !.pc = "ended",
                                   !.failure = x.outcome,
                                   !.fault = "parse",
                                   !.exc = r.error.exc,
                                   !.logged = x.logged]
             ELSE stream' = [stream EXCEPT
                               !.read = Append(stream.read, line),
                               !.events = stream.events \o r.events]
    /\ UNCHANGED gatewayVars

\* The connection breaks or times out while the generator waits for a line.
ReadError ==
    /\ stream.pc = "reading"
    /\ \E e \in ReadErrors : Raise(e, "read")
    /\ UNCHANGED gatewayVars

\* The backend ends the response: the loop over the lines ends.
EndOfStream ==
    /\ stream.pc = "reading"
    /\ stream' = [stream EXCEPT !.events = stream.events \o OnEof(stream.impl),
                                !.pc = "stopped"]
    /\ UNCHANGED gatewayVars

\* A generator that ends after its last event with its response left open.
CloseConnectionSkipped ==
    /\ stream.pc = "stopped"
    /\ stream' = [stream EXCEPT !.pc = "ended"]
    /\ UNCHANGED gatewayVars

\* The consumer resumes the generator after the last event: the response
\* (and the session) is closed, which succeeds or raises.
CloseConnection ==
    /\ stream.pc = "stopped"
    /\ \/ stream' = [stream EXCEPT !.conn = "closed", !.pc = "ended"]
       \/ \E e \in CloseErrors : Raise(e, "close")
    /\ UNCHANGED gatewayVars

NextStream ==
    \/ StartStream
    \/ OpenConnection
    \/ ReadLine
    \/ ReadError
    \/ EndOfStream
    \/ CloseConnection

SpecStream == InitStream /\ [][NextStream]_vars

\* A generator that keeps its response outside any `with` block: abandoned,
\* it ends and the connection stays as it was.
OnGeneratorExitLeaking(s) == [s EXCEPT !.pc = "closed", !.failure = "closed"]

\* GeneratorExit (or the cancellation of the consuming task) is raised where
\* the generator is suspended.  It is no requests.RequestException and no
\* Exception, so neither except clause handles it: it leaves through
\* `with requests.post(...) as response` (`async with session.post(...)`,
\* `async with aiohttp.ClientSession()`), whose exit closes the connection.
OnGeneratorExit(s) ==
    [s EXCEPT !.conn = IF s.conn = "open" THEN "closed" ELSE s.conn,
              !.pc = "closed",
              !.failure = "closed"]

\* The consumer goes away before the terminal event: it asks for no further
\* event and drops the generator.
Disconnect ==
    /\ stream.pc \in {"created", "reading"}
    /\ stream' = [stream EXCEPT !.pc = "abandoned"]
    /\ UNCHANGED gatewayVars

\* The runtime finalizes the abandoned generator (close() of a generator
\* that lost its last reference, aclose() scheduled by the event loop).
FinalizeGenerator ==
    /\ stream.pc = "abandoned"
    /\ stream' = OnGeneratorExit(stream)
    /\ UNCHANGED gatewayVars

NextConsumer ==
    \/ NextStream
    \/ Disconnect
    \/ FinalizeGenerator

\* An abandoned generator is finalized: the streaming generators with a
\* consumer that may leave.
SpecConsumer ==
    InitStream /\ [][NextConsumer]_vars /\ WF_vars(FinalizeGenerator)

\* The same, with a consumer that is a `for` (`async for`) loop over the
\* generator: a consumer that has not left asks for the next event after the
\* one it got, so the generator is resumed after its last event.
SpecDriven ==
    /\ InitStream /\ [][NextConsumer]_vars
    /\ WF_vars(FinalizeGenerator) /\ WF_vars(CloseConnection)


----------------------------------------------------------------------------
(* Concurrent requests on one worker: app/api/router.py.  Every handler is *)
(* an `async def` coroutine run by the worker's event loop; it gives the   *)
(* thread back to the loop only where it awaits.  The adapters are called  *)
(* as plain functions: subprocess.run and requests.post return when the    *)
(* engine has exited or the backend has answered, and the coroutine holds  *)
(* the loop's thread until then.                                           *)

\* The adapter calls one handler makes, at most: those of process.
Stages == <<"transcribe", "generate", "synthesize">>

\* The loop's thread is held by no coroutine.
LoopIdle == \A t \in Tasks : loop[t].st \notin {"handler", "in_call"}

InitLoop ==
    /\ settings = [API_KEY_ENABLED |-> TRUE, API_KEY |-> "k1"]
    /\ pc = "idle"
    /\ request = NoRequest
    /\ response = NoResponse
    /\ locals = NoLocals
    /\ calls = <<>>
    /\ effects = NoEffects
    /\ tempFiles = {}
    /\ nextId = 0
    /\ served = 0
    /\ stream = NoStream
    /\ loop = NoLoop
    /\ adapters = NoAdapters

\* A request arrives on a connection of the worker.
Arrive(t) ==
    /\ loop[t].st = "none"
    /\ loop' = [loop EXCEPT ![t].st = "pending"]
    /\ UNCHANGED <<requestVars, stream, adapters>>

\* The loop, when its thread is free, starts the handler of a request.
StartHandler(t) ==
    /\ loop[t].st = "pending"
    /\ LoopIdle
    /\ loop' = [loop EXCEPT ![t].st = "handler"]
    /\ UNCHANGED <<requestVars, stream, adapters>>

\* `await file.read()` in transcribe: the coroutine is suspended and the
\* thread goes back to the loop.
AwaitFileRead(t) ==
    /\ loop[t].st = "handler"
    /\ loop[t].stage = 0
    /\ ~loop[t].read
    /\ loop' = [loop EXCEPT ![t].st = "awaiting"]
    /\ UNCHANGED <<requestVars, stream, adapters>>

\* The upload has been read: the loop, when its thread is free, resumes the
\* coroutine.
ResumeHandler(t) ==
    /\ loop[t].st = "awaiting"
    /\ LoopIdle
    /\ loop' = [loop EXCEPT ![t].st = "handler", ![t].read = TRUE]
    /\ UNCHANGED <<requestVars, stream, adapters>>

\* The handler calls an adapter: stt_service.transcribe, llm_service.generate
\* or tts_service.synthesize, which blocks in subprocess.run or requests.post.
EnterCall(t) ==
    /\ loop[t].st = "handler"
    /\ loop[t].stage < Len(Stages)
    /\ loop' = [loop EXCEPT ![t].st = "in_call", ![t].stage = loop[t].stage + 1]
    /\ UNCHANGED <<requestVars, stream, adapters>>

\* The engine has exited or the backend has answered: the adapter returns.
ReturnCall(t) ==
    /\ loop[t].st = "in_call"
    /\ loop' = [loop EXCEPT ![t].st = "handler"]
    /\ UNCHANGED <<requestVars, stream, adapters>>

\* The handler returns or raises: the response is sent.
FinishHandler(t) ==
    /\ loop[t].st = "handler"
    /\ loop' = [loop EXCEPT ![t].st = "done"]
    /\ UNCHANGED <<requestVars, stream, adapters>>

NextLoop ==
    \E t \in Tasks :
      \/ Arrive(t)
      \/ StartHandler(t)
      \/ AwaitFileRead(t)
      \/ ResumeHandler(t)
      \/ EnterCall(t)
      \/ ReturnCall(t)
      \/ FinishHandler(t)

SpecLoop == InitLoop /\ [][NextLoop]_vars


----------------------------------------------------------------------------
(* Concurrent invocations of the transcription and synthesis adapters, step *)
(* by step on one shared temp directory: app/core/stt.py, app/core/tts.py.  *)
(* The steps of different invocations interleave freely: invocations run   *)
(* in different worker processes, and one after the other in one worker.   *)

\* open(name, 'w').write(content), by Python or by an engine
WriteFile(fs, name, content) ==
    [f \in DOMAIN fs \cup {name} |-> IF f = name THEN content ELSE fs[f]]

\* os.unlink(name)
Unlink(fs, name) == [f \in DOMAIN fs \ {name} |-> fs[f]]

\* The arguments every invocation of this specification is made with.
InvocationArgs ==
    [audio_data |-> <<82, 73, 70>>, language |-> None,
     text |-> "4", speaker |-> None, output_format |-> "wav"]

\* The environment of an invocation before any of its steps has met it.
FirstEnv(adapter) ==
    IF adapter = "transcribe"
    THEN [tmp |-> "ok", engine |-> "exit0", stdout |-> " hi\n", txt |-> None]
    ELSE [tmp |-> "ok", engine |-> "exit0", audio |-> <<65>>]

\* The environments of an adapter, one for each way its call can go: what
\* the call never looks at is as in FirstEnv.
AdapterEnvs(adapter) ==
    IF adapter = "transcribe"
    THEN {e \in STTEnvs :
            /\ e.engine = "oserror" => e.txt = None
            /\ e.engine # "exit0" \/ e.txt # None
                 => e.stdout = FirstEnv(adapter).stdout}
    ELSE {e \in TTSEnvs : e.engine # "exit0" => e.audio = FirstEnv(adapter).audio}

\* temp_path of transcribe, output_path of synthesize
TempPath(c) ==
    TempName(c.n, IF c.adapter = "transcribe" THEN ".wav"
                  ELSE "." \o InvocationArgs.output_format)

\* txt_path = f"{temp_path}.txt"
TxtPath(c) == TempPath(c) \o ".txt"

\* The whole call in an environment of its own, as the adapter's code runs
\* it from its first line to its finally block.
RunAlone(c, env) ==
    IF c.adapter = "transcribe"
    THEN transcribe(c.n, InvocationArgs.audio_data, InvocationArgs.language, env)
    ELSE synthesize(c.n, InvocationArgs.text, InvocationArgs.speaker,
                    InvocationArgs.output_format, env)

InitCalls ==
    /\ settings = [API_KEY_ENABLED |-> TRUE, API_KEY |-> "k1"]
    /\ pc = "idle"
    /\ request = NoRequest
    /\ response = NoResponse
    /\ locals = NoLocals
    /\ calls = <<>>
    /\ effects = NoEffects
    /\ tempFiles = {}
    /\ nextId = 0
    /\ served = 0
    /\ stream = NoStream
    /\ loop = NoLoop
    /\ adapters = NoAdapters

\* job_id = str(uuid.uuid4()): the invocation starts and draws its identifiers.
BeginInvocation(k) ==
    /\ adapters.call[k].pc = "none"
    /\ \E a \in {"transcribe", "synthesize"} :
         adapters' = [adapters EXCEPT
             !.drawn = @ + 1,
             !.call[k] = [adapter |-> a, pc |-> "create", n |-> adapters.drawn + 1,
                          env |-> FirstEnv(a), has_path |-> FALSE, result |-> <<>>]]
    /\ UNCHANGED <<requestVars, stream, loop>>

\* with tempfile.NamedTemporaryFile(suffix=..., delete=False) as temp_file:
\* the file is created under a new name (and, in transcribe, written).
CreateTempFile(k) ==
    LET c == adapters.call[k]
    IN  /\ c.pc = "create"
        /\ \E tmp \in {e.tmp : e \in AdapterEnvs(c.adapter)} :
             LET env == [c.env EXCEPT !.tmp = tmp]
                 content == IF c.adapter = "transcribe" /\ tmp = "ok"
                            THEN InvocationArgs.audio_data ELSE <<>>
             IN  IF tmp = "create_error"
                 THEN adapters' = [adapters EXCEPT
                        !.call[k] = [c EXCEPT !.env = env, !.pc = "finally",
                                              !.result = RunAlone(c, env).value]]
                 ELSE adapters' = [adapters EXCEPT
                        !.files = WriteFile(@, TempPath(c), content),
                        !.created = @ \cup {[by |-> k, name |-> TempPath(c)]},
                        !.call[k] = [c EXCEPT
                            !.env = env, !.has_path = TRUE,
                            !.pc = IF tmp = "ok" THEN "run" ELSE "finally",
                            !.result = IF tmp = "ok" THEN <<>>
                                       ELSE RunAlone(c, env).value]]
        /\ UNCHANGED <<requestVars, stream, loop>>

\* subprocess.run(cmd, ...): the engine works on the temp file of the call;
\* whisper.cpp may write the text file next to it, piper writes the audio
\* into it.  A non-zero exit or an OSError leaves the try block.
RunEngine(k) ==
    LET c == adapters.call[k]
    IN  /\ c.pc = "run"
        /\ \E env \in {e \in AdapterEnvs(c.adapter) : e.tmp = c.env.tmp} :
             LET wrote == IF env.engine = "oserror" THEN {}
                          ELSE IF c.adapter = "transcribe"
                               THEN IF env.txt = None THEN {}
                                    ELSE {<<TxtPath(c), env.txt>>}
                               ELSE IF env.engine = "exit0"
                                    THEN {<<TempPath(c), env.audio>>} ELSE {}
                 fs == IF wrote = {} THEN adapters.files
                       ELSE LET w == CHOOSE x \in wrote : TRUE
                            IN  WriteFile(adapters.files, w[1], w[2])
             IN  adapters' = [adapters EXCEPT
                    !.files = fs,
                    !.touched = @ \cup {[by |-> k, name |-> TempPath(c)]}
                                  \cup {[by |-> k, name |-> w[1]] : w \in wrote},
                    !.created = @ \cup {[by |-> k, name |-> w[1]] :
                                          w \in {x \in wrote : x[1] # TempPath(c)}},
                    !.call[k] = [c EXCEPT
                        !.env = env,
                        !.pc = IF env.engine = "exit0" THEN "read" ELSE "finally",
                        !.result = IF env.engine = "exit0" THEN <<>>
                                   ELSE RunAlone(c, env).value]]
        /\ UNCHANGED <<requestVars, stream, loop>>

\* The call reads what is on disk under its names: transcribe the text file
\* if it exists (and unlinks it once read), synthesize its output file.
ReadOutput(k) ==
    LET c == adapters.call[k]
        name == IF c.adapter = "transcribe" THEN TxtPath(c) ELSE TempPath(c)
        exists == name \in DOMAIN adapters.files
        content == adapters.files[name]
        missing == [job_id |-> uuid4(c.n),
                    error |-> "[Errno 2] No such file or directory: " \o name,
                    success |-> FALSE]
    IN  /\ c.pc = "read"
        /\ adapters' = [adapters EXCEPT
              !.touched = IF exists THEN @ \cup {[by |-> k, name |-> name]} ELSE @,
              !.files = IF c.adapter = "transcribe" /\ exists /\ content # "\\xff"
                        THEN Unlink(@, name) ELSE @,
              !.call[k] = [c EXCEPT
                  !.pc = "finally",
                  !.result =
                     IF c.adapter = "transcribe"
                     THEN RunAlone(c, [c.env EXCEPT
                                         !.txt = IF exists THEN content ELSE None]).value
                     ELSE IF exists
                          THEN RunAlone(c, [c.env EXCEPT !.audio = content]).value
                          ELSE missing]]
        /\ UNCHANGED <<requestVars, stream, loop>>

\* finally: if the temp path is bound and the file exists, unlink it; the
\* call returns.
CleanUp(k) ==
    LET c == adapters.call[k]
        unlinks == c.has_path /\ TempPath(c) \in DOMAIN adapters.files
    IN  /\ c.pc = "finally"
        /\ adapters' = [adapters EXCEPT
              !.touched = IF unlinks THEN @ \cup {[by |-> k, name |-> TempPath(c)]}
                          ELSE @,
              !.files = IF unlinks THEN Unlink(@, TempPath(c)) ELSE @,
              !.call[k] = [c EXCEPT !.pc = "returned"]]
        /\ UNCHANGED <<requestVars, stream, loop>>

NextCalls ==
    \E k \in Invocations :
      \/ BeginInvocation(k)
      \/ CreateTempFile(k)
      \/ RunEngine(k)
      \/ ReadOutput(k)
      \/ CleanUp(k)

SpecCalls == InitCalls /\ [][NextCalls]_vars


----------------------------------------------------------------------------
(* Start of a worker: the import of app/api/router.py constructs the three *)
(* services at module level, one after the other; each constructor checks  *)
(* its resource.  An exception in a constructor ends the import, so the    *)
(* module, its service names and its routes do not exist.                   *)

\* The services in the order the router constructs them; the import stands
\* before the construction of one of them, has finished ("imported") or has
\* ended with an exception ("failed").
ServiceOrder == <<"stt", "llm", "tts">>

\* What a resource can be like: a model file is there or not; the backend
\* answers /api/tags with its models (the configured one among them or not),
\* refuses the connection, answers with an HTTP error, answers 200 with a
\* body that is not JSON or with a JSON value that is not an object, or
\* accepts the request and never answers.
ResourceStates(a) ==
    IF a = "llm"
    THEN {"up", "up_without_model", "refused", "http_error", "not_json",
          "not_object", "silent"}
    ELSE {"present", "absent"}

Worlds ==
    [stt : ResourceStates("stt"), llm : ResourceStates("llm"),
     tts : ResourceStates("tts")]

\* A check of the model file that only logs.
validate_model_warning_only(a, state) == {[ok |-> TRUE]}

\* _validate_model of the transcription and the synthesis service: the
\* outcomes of the check, given the state of the model file.
validate_model(a, state) ==
    IF state = "absent"
    THEN {[ok |-> FALSE,
           error |-> Exc("FileNotFoundError",
                         (IF a = "stt" THEN "Whisper" ELSE "TTS")
                           \o " model not found at " \o Services[a].model_path)]}
    ELSE {[ok |-> TRUE]}

\* _validate_connection of the generation service: requests.get has no
\* timeout, so a backend that never answers gives no outcome at all; a
\* missing model is only logged; a body that is not JSON is a
\* RequestException or a plain ValueError, depending on the requests version;
\* on a JSON value that is not an object, .get raises AttributeError, which
\* `except requests.RequestException` does not catch.
validate_connection(state) ==
    LET failed(msg) == [ok |-> FALSE,
                        error |-> Exc("ConnectionError",
                                      "Failed to connect to Ollama API: " \o msg)]
    IN  CASE state = "refused" -> {failed("Connection refused")}
          [] state = "http_error" -> {failed("500 Server Error: Internal Server Error")}
          [] state = "not_json" ->
               {failed("Expecting value: line 1 column 1 (char 0)"),
                [ok |-> FALSE,
                 error |-> Exc("ValueError", "Expecting value: line 1 column 1 (char 0)")]}
          [] state = "not_object" ->
               {[ok |-> FALSE,
                 error |-> Exc("AttributeError", "'list' object has no attribute 'get'")]}
          [] state = "silent" -> {}
          [] OTHER -> {[ok |-> TRUE]}

\* __init__ of a service: the attributes are set, then the resource is
\* checked; an exception of the check leaves the constructor.
Construct(a, state) ==
    IF a = "llm" THEN validate_connection(state) ELSE validate_model(a, state)

\* name = value at module level
Bind(module, name, value) ==
    [x \in DOMAIN module \cup {name} |-> IF x = name THEN value ELSE module[x]]

\* The names a module has bound before its first assignment.
NoService == [x \in {} |-> <<>>]

NoResource == [stt |-> None, llm |-> None, tts |-> None]

InitStartup ==
    /\ settings = [API_KEY_ENABLED |-> TRUE, API_KEY |-> "k1"]
    /\ pc = "idle"
    /\ request = NoRequest
    /\ response = NoResponse
    /\ locals = NoLocals
    /\ calls = <<>>
    /\ effects = NoEffects
    /\ tempFiles = {}
    /\ nextId = 0
    /\ served = 0
    /\ stream = NoStream
    /\ loop = NoLoop
    /\ adapters \in {[NoAdapters EXCEPT !.service = NoService, !.world = w,
                                        !.router = ServiceOrder[1],
                                        !.seen = NoResource] :
                       w \in Worlds}

\* stt_service = SpeechToTextService(), llm_service = LanguageModelService(),
\* tts_service = TextToSpeechService(): the next service is constructed and
\* bound, or its constructor raises and the import of the router ends.
ConstructService ==
    /\ \E i \in DOMAIN ServiceOrder : adapters.router = ServiceOrder[i]
    /\ LET a == adapters.router
           i == CHOOSE j \in DOMAIN ServiceOrder : ServiceOrder[j] = a
           state == adapters.world[a]
       IN  \E out \in Construct(a, state) :
             adapters' =
               IF out.ok
               THEN [adapters EXCEPT
                       !.service = Bind(@, a, Services[a]),
                       !.seen[a] = state,
                       !.router = IF i = Len(ServiceOrder) THEN "imported"
                                  ELSE ServiceOrder[i + 1]]
               ELSE [adapters EXCEPT
                       !.seen[a] = state,
                       !.router = "failed",
                       !.import_error = out.error]
    /\ UNCHANGED <<requestVars, stream, loop>>

\* A resource changes while the worker starts or runs: a model file is
\* removed or put in place, the backend goes down or comes up.
ResourceChanges ==
    /\ \E a \in DOMAIN adapters.world :
         \E state \in ResourceStates(a) \ {adapters.world[a]} :
           adapters' = [adapters EXCEPT !.world[a] = state]
    /\ UNCHANGED <<requestVars, stream, loop>>

\* A handler calls stt_service.transcribe, llm_service.generate or
\* tts_service.synthesize: the router module must exist and the name be bound.
CallService ==
    /\ adapters.router = "imported"
    /\ \E a \in DOMAIN adapters.service \ adapters.invoked :
         adapters' = [adapters EXCEPT !.invoked = @ \cup {a}]
    /\ UNCHANGED <<requestVars, stream, loop>>

NextStartup ==
    \/ ConstructService
    \/ ResourceChanges
    \/ CallService

SpecStartup == InitStartup /\ [][NextStartup]_vars


----------------------------------------------------------------------------
(* The conversation history in the payload of generate and generate_async: *)
(* app/core/llm.py.  Both functions build the payload with the same lines. *)

\* Entries a caller can put in a history: complete ones, one with an empty
\* content, one with an empty role, one without content, one without role,
\* and a complete one with a further key.
HistoryEntries ==
    {[role |-> "user", content |-> "hi"],
     [role |-> "assistant", content |-> "yo"],
     [role |-> "user", content |-> ""],
     [role |-> "", content |-> "hi"],
     [role |-> "user"],
     [content |-> "hi"],
     [role |-> "user", content |-> "hi", name |-> "bob"]}

\* conversation_history: Optional[List[Dict[str, str]]]: None, or a list.
Histories ==
    {[given |-> FALSE]}
      \cup {[given |-> TRUE, entries |-> h] :
              h \in UNION {[1 .. n -> HistoryEntries] : n \in 0 .. MaxHistory}}

\* A loop that appends every entry, reduced to its role and content.
MessagesUnfiltered(entries, i, messages) ==
    [j \in 1 .. Len(entries) |->
       [role |-> Get(entries[j], "role", None),
        content |-> Get(entries[j], "content", None)]]

\* `for msg in conversation_history:` from the i-th entry on, with the
\* messages appended so far.
RECURSIVE Messages(_, _, _)
Messages(entries, i, messages) ==
    IF i > Len(entries) THEN messages
    ELSE LET msg == entries[i]
         IN  IF ~Falsy(Get(msg, "role", None)) /\ ~Falsy(Get(msg, "content", None))
             THEN Messages(entries, i + 1,
                           Append(messages, [role |-> msg.role, content |-> msg.content]))
             ELSE Messages(entries, i + 1, messages)

\* `if conversation_history:` ... `if messages: payload["messages"] = messages`
AddMessages(payload, conversation_history) ==
    IF conversation_history.given /\ conversation_history.entries # <<>>
    THEN LET messages == Messages(conversation_history.entries, 1, <<>>)
         IN  IF messages # <<>>
             THEN [k \in DOMAIN payload \cup {"messages"} |->
                     IF k = "messages" THEN messages ELSE payload[k]]
             ELSE payload
    ELSE payload

InitPayload ==
    /\ settings = [API_KEY_ENABLED |-> TRUE, API_KEY |-> "k1"]
    /\ pc = "idle"
    /\ request = NoRequest
    /\ response = NoResponse
    /\ locals \in {[prompt |-> "hi", conversation_history |-> h] : h \in Histories}
    /\ calls = <<>>
    /\ effects = NoEffects
    /\ tempFiles = {}
    /\ nextId = 0
    /\ served = 0
    /\ stream = NoStream
    /\ loop = NoLoop
    /\ adapters = NoAdapters

\* generate(prompt, conversation_history=...) builds its payload and posts
\* it (stream is False by default).
PostGenerate ==
    /\ calls = <<>>
    /\ calls' = <<[adapter |-> "generate",
                   payload |-> AddMessages(
                       Payload(locals.prompt, None, 7, DefaultMaxTokens, FALSE),
                       locals.conversation_history)]>>
    /\ UNCHANGED <<settings, pc, request, response, locals, effects, tempFiles,
                   nextId, served, stream, loop, adapters>>

\* generate_async(prompt, conversation_history=...) builds its payload
\* ("stream": True) and posts it when its consumer asks for the first event.
PostGenerateAsync ==
    /\ calls = <<>>
    /\ calls' = <<[adapter |-> "generate_async",
                   payload |-> AddMessages(
                       Payload(locals.prompt, None, 7, DefaultMaxTokens, TRUE),
                       locals.conversation_history)]>>
    /\ UNCHANGED <<settings, pc, request, response, locals, effects, tempFiles,
                   nextId, served, stream, loop, adapters>>

NextPayload ==
    \/ PostGenerate
    \/ PostGenerateAsync

SpecPayload == InitPayload /\ [][NextPayload]_vars


----------------------------------------------------------------------------
(* Properties of the gateway (specification Spec) *)

Rank(adapter) ==
    CASE adapter = "transcribe" -> 1
      [] adapter = "generate" -> 2
      [] adapter = "synthesize" -> 3

\* The call returned a result with success = True.
Succeeded(c) == c.outcome = "return" /\ c.result.success

\* The call returned a result with success = False.
ReturnedFailure(c) == c.outcome = "return" /\ ~c.result.success

\* C1: in a /process run the stages are invoked in the order Transcription,
\* Generation, Synthesis, each at most once; a stage is invoked only if every
\* stage before it returned success; a stage that reports failure is the last
\* one invoked and the run ends with that stage's error.
C1_StagesInOrder ==
    request.endpoint = "process" =>
      /\ \A i, j \in DOMAIN calls :
           i < j => Rank(calls[i].adapter) < Rank(calls[j].adapter)
      /\ \A i \in DOMAIN calls : i < Len(calls) => Succeeded(calls[i])
      /\ \A i \in DOMAIN calls :
           ReturnedFailure(calls[i]) =>
             /\ i = Len(calls)
             /\ pc = "done"
             /\ response = HTTPException(500, calls[i].result.error)
      /\ (IsAudioRun(request) /\ calls # <<>>) => calls[1].adapter = "transcribe"
      /\ \A i \in DOMAIN calls :
           calls[i].adapter = "synthesize" =>
             i > 1 /\ calls[i - 1].adapter = "generate"

\* A run whose generation succeeded and whose synthesis failed: it has ended
\* after these two calls, with the error of the synthesis.
C1_Witness ==
    /\ request.endpoint = "process"
    /\ request.return_audio
    /\ pc = "done"
    /\ Len(calls) = 2
    /\ calls[1].adapter = "generate" /\ Succeeded(calls[1])
    /\ calls[2].adapter = "synthesize" /\ ReturnedFailure(calls[2])
    /\ response = HTTPException(500, calls[2].result.error)

C3_FailureCarriesOutputText ==
    ( /\ request.endpoint = "process"
      /\ request.return_audio
      /\ pc = "done"
      /\ calls # <<>>
      /\ calls[Len(calls)].adapter = "synthesize"
      /\ ReturnedFailure(calls[Len(calls)]) )
    => /\ "success" \in DOMAIN response.body
       /\ response.body.success = FALSE
       /\ Get(response.body, "error", None) = calls[Len(calls)].result.error
       /\ Get(response.body, "output_text", None) = calls[Len(calls) - 1].result.text

\* C4: in a /process run with return_audio=false the Synthesis adapter is
\* never invoked, and once Generation has succeeded the run has returned
\* success=true with the generated output_text and with audio_base64 and
\* format both null.
C4_NoSynthesisUnlessWanted ==
    (request.endpoint = "process" /\ ~request.return_audio) =>
      /\ \A i \in DOMAIN calls : calls[i].adapter # "synthesize"
      /\ \A i \in DOMAIN calls :
           (calls[i].adapter = "generate" /\ Succeeded(calls[i])) =>
             /\ pc = "done"
             /\ response.status = 200
             /\ response.body.success = TRUE
             /\ response.body.output_text = calls[i].result.text
             /\ response.body.audio_base64 = None
             /\ response.body.format = None

\* A text run without audio output that has returned the generated text.
C4_Witness ==
    /\ request.endpoint = "process"
    /\ ~request.return_audio
    /\ request.text = "2+2?"
    /\ ~IsAudioRun(request)
    /\ pc = "done"
    /\ Len(calls) = 1
    /\ Succeeded(calls[1])
    /\ response.status = 200
    /\ response.body.output_text = "4"

\* C8: a POST /generate with stream=true is answered with a server-sent-event
\* stream that ends with the `data: [DONE]` sentinel; with stream=false a
\* single GenerationResponse is returned.
C8_StreamFlagSelectsEventStream ==
    (request.endpoint = "generate" /\ pc = "done" /\ response.status = 200) =>
      IF request.stream
      THEN /\ response.kind = "event-stream"
           /\ Get(response, "last_frame", None) = "data: [DONE]"
      ELSE response.kind = "generation"

\* The shared-secret header of the request is missing or is not the secret.
BadKey == request.x_api_key = None \/ request.x_api_key # settings.API_KEY

\* C9: with authentication enabled, a request to an endpoint other than health
\* whose shared-secret header is missing or differs from the configured secret
\* is answered 401 and no adapter is invoked for it (no temp file, no backend
\* call); the health endpoint is served without the header.
C9_UnauthorizedBeforeAdapters ==
    (settings.API_KEY_ENABLED /\ pc # "idle") =>
      /\ (request.endpoint # "health" /\ BadKey) =>
           /\ pc \in {"received", "done"}
           /\ pc = "done" => response.status = 401
           /\ calls = <<>>
           /\ effects = NoEffects
      /\ (request.endpoint = "health" /\ pc = "done") => response.status = 200

\* A /process request carrying a wrong secret has been answered 401.
C9_Witness ==
    /\ settings.API_KEY_ENABLED
    /\ settings.API_KEY = "k1"
    /\ request.endpoint = "process"
    /\ request.x_api_key = "k2"
    /\ pc = "done"
    /\ response.status = 401
    /\ calls = <<>>

\* C10: no exception leaves an adapter call: every call returns a structured
\* result, which on failure is {success: false, error, job_id}.
C10_AdaptersReturnResults ==
    \A i \in DOMAIN calls :
      /\ calls[i].outcome = "return"
      /\ ~calls[i].result.success =>
           DOMAIN calls[i].result = {"success", "error", "job_id"}

\* The request got past the API-key dependency.
Authenticated == pc \notin {"idle", "received"} /\ response.status # 401

\* C15: a /process request that supplies neither audio nor text is rejected
\* with a validation error before any adapter is called.
C15_NeitherInputRejected ==
    ( /\ request.endpoint = "process"
      /\ request.audio_base64 = None
      /\ request.text = None
      /\ Authenticated )
    => /\ pc \in {"authenticated", "done"}
       /\ pc = "done" => response.status = 422
       /\ calls = <<>>

\* C16: every /process request whose input is audio leads to exactly one
\* call of the Transcription adapter, made with the decoded audio and the
\* language hint of the request, before any Generation call; the job_id of
\* that transcription becomes the job identifier of the pipeline.
C16_AudioIsTranscribedOnce ==
    ( /\ request.endpoint = "process"
      /\ IsAudioRun(request)
      /\ b64decode(request.audio_base64).ok
      /\ Authenticated
      /\ pc \in {"p_llm", "p_tts", "done"} )
    => /\ calls # <<>>
       /\ calls[1].adapter = "transcribe"
       /\ calls[1].args = [audio_data |-> b64decode(request.audio_base64).data,
                           language |-> request.language]
       /\ \A i \in DOMAIN calls : calls[i].adapter = "transcribe" => i = 1
       /\ Succeeded(calls[1]) => locals.job_id = calls[1].result.job_id
       /\ (pc = "done" /\ response.status = 200) =>
            response.body.job_id = calls[1].result.job_id

\* The /process request has been answered with a ProcessResponse.
ProcessAnswered ==
    /\ request.endpoint = "process"
    /\ pc = "done"
    /\ response.status = 200

\* C17: a /process result has success=true only if every stage executed in
\* that run returned success.
C17_SuccessOnlyIfAllStagesSucceeded ==
    (ProcessAnswered /\ response.body.success = TRUE) =>
      /\ calls # <<>>
      /\ \A i \in DOMAIN calls : Succeeded(calls[i])

\* A run of two stages, both successful, answered with success=true.
C17_Witness ==
    /\ ProcessAnswered
    /\ response.body.success = TRUE
    /\ Len(calls) = 2
    /\ Succeeded(calls[1]) /\ Succeeded(calls[2])
    /\ response.body.audio_base64 = "UklG"

\* The job_id the adapter returned from the i-th call of the run.
JobIdOf(i) == calls[i].result.job_id

\* C18: a /process result surfaces exactly one job id: the Transcription's
\* when a transcription ran, otherwise the Generation's; the job_id of the
\* Synthesis is never surfaced.
C18_OneJobIdSurfaced ==
    ProcessAnswered =>
      /\ calls # <<>>
      /\ calls[1].adapter \in {"transcribe", "generate"}
      /\ response.body.job_id = JobIdOf(1)
      /\ \A i \in DOMAIN calls :
           calls[i].adapter = "synthesize" => response.body.job_id # JobIdOf(i)
      /\ \A f \in DOMAIN response.body \ {"job_id", "success"} :
           \A i \in DOMAIN calls : response.body[f] # JobIdOf(i)

\* A text run with audio output: the job_id of the generation is surfaced,
\* the one of the synthesis is another one.
C18_Witness ==
    /\ ProcessAnswered
    /\ Len(calls) = 2
    /\ calls[1].adapter = "generate"
    /\ calls[2].adapter = "synthesize"
    /\ response.body.job_id = JobIdOf(1)
    /\ JobIdOf(2) # JobIdOf(1)

\* C19: an unexpected exception (neither a validation error nor a failure
\* that an adapter returned as a result) is reported with a generic, opaque
\* message: the response body is the same whatever the text of the
\* exception, and does not carry that text.
C19_UnexpectedErrorIsOpaque ==
    \A i \in DOMAIN calls :
      (calls[i].outcome = "raise" /\ pc = "done") =>
        /\ response.status = 500
        /\ response.body = generic_exception_handler(calls[i].result).body
        /\ response.body.detail # calls[i].result.msg

\* A synthesis request has been answered with audio.
SynthesisAnswered(endpoint) ==
    /\ request.endpoint = endpoint
    /\ pc = "done"
    /\ response.status = 200

ResolvedText ==
    IF calls # <<>> /\ calls[1].adapter = "transcribe"
    THEN Get(calls[1].result, "text", None)
    ELSE request.text

\* C21: in a /process run the Generation adapter is invoked with the
\* resolved text as prompt, together with the system prompt, the temperature
\* and the image attachment of the request, all unchanged, and the Synthesis
\* adapter is invoked with exactly the text that Generation returned.
C21_StageArgumentsPassedThrough ==
    request.endpoint = "process" =>
      \A i \in DOMAIN calls :
        /\ calls[i].adapter = "generate" =>
             /\ calls[i].args.prompt = ResolvedText
             /\ calls[i].args.system_prompt = request.system_prompt
             /\ calls[i].args.temperature = request.temperature
             /\ Get(calls[i].args, "image_base64", None) = request.image
        /\ calls[i].adapter = "synthesize" =>
             /\ i > 1
             /\ calls[i - 1].adapter = "generate"
             /\ calls[i].args.text = calls[i - 1].result.text

\* The calls of the run whose adapter returned a failure result.
FailedCalls == {i \in DOMAIN calls : ReturnedFailure(calls[i])}

\* C24: when a stage fails in a /process run, exactly one error surfaces for
\* the call, and its message is exactly the error message that the adapter
\* of the first failing stage returned, unmodified.
C24_FirstStageErrorVerbatim ==
    (request.endpoint = "process" /\ pc = "done" /\ FailedCalls # {}) =>
      /\ Cardinality(FailedCalls) = 1
      /\ response.status = 500
      /\ DOMAIN response.body = {"detail"}
      /\ \A i \in FailedCalls : response.body.detail = calls[i].result.error

\* A run whose generation returned the failure "Connection refused": the
\* response carries that text.
C24_Witness ==
    /\ request.endpoint = "process"
    /\ pc = "done"
    /\ Len(calls) = 1
    /\ calls[1].adapter = "generate"
    /\ ReturnedFailure(calls[1])
    /\ calls[1].result.error = "Connection refused"
    /\ response.body = [detail |-> "Connection refused"]


\* The keys under which an adapter hands over what it produced.
PayloadKeys == {"text", "audio_data"}

\* C27: a dict an adapter returns with success False has exactly the keys
\* job_id, error and success, with a job identifier and a non-empty message,
\* and so none of the payload; a dict returned with success True has its
\* payload (text of transcribe and generate, audio_data of synthesize) and a
\* job_id, and no error.
C27_ResultShape ==
    \A i \in DOMAIN calls :
      calls[i].outcome = "return" =>
        LET r == calls[i].result
        IN  IF r.success
            THEN /\ "job_id" \in DOMAIN r
                 /\ "error" \notin DOMAIN r
                 /\ IF calls[i].adapter = "synthesize"
                    THEN "audio_data" \in DOMAIN r
                    ELSE "text" \in DOMAIN r
            ELSE /\ DOMAIN r = {"job_id", "error", "success"}
                 /\ \E n \in 1 .. nextId : r.job_id = uuid4(n)
                 /\ r.error # ""
                 /\ DOMAIN r \cap PayloadKeys = {}

\* A transcription by upload that the engine failed: the call returned a
\* failure dict.
C27_Witness ==
    /\ request.endpoint = "transcribe"
    /\ Len(calls) = 1
    /\ calls[1].outcome = "return"
    /\ ~calls[1].result.success
    /\ calls[1].result.error = "Whisper transcription failed: bad audio"


\* C30: with authentication enabled and no secret configured (API_KEY is
\* None), every request to an endpoint other than health is answered 401,
\* whatever its X-API-Key header (absent, empty or any string), and no
\* adapter is reached for it: no call, no temp file, no backend post.
C30_FailsClosedWithoutSecret ==
    (/\ settings.API_KEY_ENABLED
     /\ settings.API_KEY = None
     /\ pc # "idle"
     /\ request.endpoint # "health") =>
       /\ pc \in {"received", "done"}
       /\ pc = "done" =>
            /\ response.status = 401
            /\ response.body.detail \in {"API key is required", "Invalid API key"}
       /\ calls = <<>>
       /\ effects = NoEffects
       /\ tempFiles = {}

\* No secret is configured and a /generate request that carries a key has
\* been answered 401 "Invalid API key".
C30_Witness ==
    /\ settings.API_KEY_ENABLED
    /\ settings.API_KEY = None
    /\ request.endpoint = "generate"
    /\ request.x_api_key = "k1"
    /\ pc = "done"
    /\ response = HTTPException(401, "Invalid API key")
    /\ calls = <<>>


\* C31: an answered /process request whose audio_base64 is non-empty (here:
\* and decodable) was an audio run: its first call is the transcription of
\* the audio, and a generation that follows is prompted with the transcribed
\* text, not with the text of the request.  An answered request whose
\* audio_base64 is absent or empty was a text run: the Transcription adapter
\* was not called and input_text of the result is the text of the request.
C31_AudioRunOrTextRun ==
    (request.endpoint = "process" /\ Authenticated /\ pc = "done") =>
      IF IsAudioRun(request)
      THEN b64decode(request.audio_base64).ok =>
             /\ calls # <<>>
             /\ calls[1].adapter = "transcribe"
             /\ \A i \in DOMAIN calls :
                  calls[i].adapter = "generate" =>
                    calls[i].args.prompt = calls[1].result.text
      ELSE /\ \A i \in DOMAIN calls : calls[i].adapter # "transcribe"
           /\ response.status = 200 => response.body.input_text = request.text


----------------------------------------------------------------------------
(* Properties of the streaming generators (specification SpecStream) *)

\* Every line is a JSON object with a non-empty text.
AllText(ls) == \A i \in DOMAIN ls : ls[i].kind = "text"

\* The positions of the events that carry a non-null finish_reason.
Terminals(events) == {i \in DOMAIN events : events[i].finish_reason # None}

\* C5: a streaming generation whose backend delivers N non-empty text chunks
\* and then completes without error yields exactly N+1 events: N events with
\* finish_reason=null, carrying the chunks in order, then one terminal event
\* with empty text and finish_reason=stop; nothing follows it.
C5_ChunksThenOneStop ==
    ( /\ stream.pc \in {"stopped", "ended"}
      /\ stream.fault = "none"
      /\ AllText(stream.read) )
    => /\ Len(stream.events) = Len(stream.read) + 1
       /\ \A i \in DOMAIN stream.read :
            /\ stream.events[i].finish_reason = None
            /\ stream.events[i].text = stream.read[i].text
            /\ stream.events[i].text # ""
       /\ stream.events[Len(stream.events)].text = ""
       /\ stream.events[Len(stream.events)].finish_reason = "stop"
       /\ Terminals(stream.events) = {Len(stream.events)}

\* generate_async has ended, without error, a stream of two text chunks.
C5_Witness ==
    /\ stream.impl = "generate_async"
    /\ stream.pc = "ended"
    /\ stream.fault = "none"
    /\ Len(stream.read) = 2
    /\ AllText(stream.read)
    /\ Len(stream.events) = 3

\* C6: if a transport or backend error occurs during a streaming generation,
\* before the first chunk or after any number of forwarded chunks, the stream
\* ends with exactly one final event that carries an error indicator and
\* finish_reason=error; this holds for every streaming generation call.
C6_ErrorEndsWithOneErrorEvent ==
    (stream.pc = "ended" /\ stream.fault \in {"open", "read"}) =>
      /\ Cardinality(Terminals(stream.events)) = 1
      /\ stream.events[Len(stream.events)].finish_reason = "error"
      /\ "error" \in DOMAIN stream.events[Len(stream.events)]

\* C7: in every stream, on every path, exactly one event has a non-null
\* finish_reason and that event is the last one of the stream.
C7_ExactlyOneTerminalLast ==
    stream.pc = "ended" =>
      /\ Cardinality(Terminals(stream.events)) = 1
      /\ Terminals(stream.events) = {Len(stream.events)}

\* C11: when a transcribe or synthesize call has returned, with success or
\* with a failure result, every temporary file created for it (the audio
\* file and the engine's text file next to it) has been removed: no sequence
\* of calls leaves a temporary file on disk.
C11_NoTempFileLeft == tempFiles = {}

\* C14: a streaming generation whose backend does not answer within the
\* time bound of the call (timeout=120: the transport raises Timeout) does
\* not hang: it has ended, and its last event is a terminal error event.
C14_TimeoutEndsWithError ==
    stream.exc = "Timeout" =>
      /\ stream.pc = "ended"
      /\ stream.conn # "open"
      /\ stream.events # <<>>
      /\ stream.events[Len(stream.events)].finish_reason = "error"
      /\ "error" \in DOMAIN stream.events[Len(stream.events)]


\* The line is a unit of text of the backend: a JSON object, whose text is
\* its "response" (empty when the object has none).
IsTextUnit(line) == line.kind \in {"text", "object"}

\* The event is not a terminal one.
IsDelta(event) == event.finish_reason = None

C23_UnparsableUnitNotSwallowed ==
    \A i \in DOMAIN stream.read :
      stream.read[i].kind = "garbage" =>
        \/ \E k \in DOMAIN stream.events : stream.events[k].finish_reason = "error"
        \/ stream.logged
        \/ stream.failure = "raised"


\* The other streaming implementation.
OtherImpl(impl) == CHOOSE i \in Impls : i # impl

\* The exception of the transport a stream ended with.
TransportError(s) ==
    LET errors == CASE s.fault = "open" -> OpenErrors
                    [] s.fault = "read" -> ReadErrors
                    [] OTHER -> CloseErrors
    IN  CHOOSE e \in errors : e.exc = s.exc

\* The events implementation impl yields for the backend lines from the
\* i-th on, given the events yielded before them.
RECURSIVE EventsFrom(_, _, _, _)
EventsFrom(impl, lines, i, events) ==
    IF i > Len(lines) THEN [events |-> events, raised |-> FALSE]
    ELSE LET r == OnLine(impl, lines[i])
         IN  IF r.raised
             THEN [events |-> events \o Except(impl, r.error).events, raised |-> TRUE]
             ELSE EventsFrom(impl, lines, i + 1, events \o r.events)

\* The events implementation impl delivers when the backend sends the lines
\* and the transport fails at the point fault ("none": it does not fail)
\* with exception e.
EventsOf(impl, lines, fault, e) ==
    IF fault = "open" THEN Except(impl, e).events
    ELSE LET body == EventsFrom(impl, lines, 1, <<>>)
         IN  IF body.raised THEN body.events
             ELSE IF fault = "read" THEN body.events \o Except(impl, e).events
             ELSE IF fault = "close"
             THEN body.events \o OnEof(impl) \o Except(impl, e).events
             ELSE body.events \o OnEof(impl)

\* C29: for the lines a finished stream has read and the point where its
\* transport failed (or did not fail), the other implementation delivers
\* the same events as this one did.
C29_ImplementationsAgree ==
    stream.pc = "ended" /\ stream.fault # "parse" =>
      stream.events
        = EventsOf(OtherImpl(stream.impl), stream.read, stream.fault,
                   IF stream.fault = "none" THEN Exc("none", "")
                   ELSE TransportError(stream))


----------------------------------------------------------------------------
(* Properties of concurrent requests (specification SpecLoop) *)

\* C12: while one request's task is suspended in a blocking adapter call,
\* the tasks of the other requests can still make progress: in no reachable
\* state is a request that has arrived kept from being handled only because
\* the adapter call of another request has not returned yet.
C12_OthersProgress ==
    \A a, b \in Tasks :
      (loop[a].st = "in_call" /\ loop[b].st = "pending") => ENABLED StartHandler(b)


----------------------------------------------------------------------------
(* Properties of a stream whose consumer may leave (specification          *)
(* SpecConsumer)                                                           *)

----------------------------------------------------------------------------
(* Properties of a stream driven by a loop (specification SpecDriven) *)

\* The generator has been created and has neither finished nor been closed.
InFlight == stream.pc \in {"created", "reading", "stopped", "abandoned"}

----------------------------------------------------------------------------
(* Properties of concurrent adapter invocations (specification SpecCalls) *)

\* The invocation has drawn its job identifier.
Started(k) == adapters.call[k].pc # "none"

\* C25: adapter invocations are independent.  The service instances stay as
\* constructed; two invocations never have the same job identifier nor
\* create a file of the same name; an invocation reads, writes and unlinks
\* only files it created itself (or its engine created for it); and the dict
\* an invocation returns is the one the adapter returns when it runs alone
\* in the same environment.
C25_InvocationsIndependent ==
    /\ adapters.service = Services
    /\ \A a, b \in Invocations :
         a # b /\ Started(a) /\ Started(b)
           => uuid4(adapters.call[a].n) # uuid4(adapters.call[b].n)
    /\ \A x, y \in adapters.created : x.name = y.name => x.by = y.by
    /\ \A t \in adapters.touched : \A x \in adapters.created :
         x.name = t.name => x.by = t.by
    /\ \A k \in Invocations :
         adapters.call[k].pc = "returned"
           => adapters.call[k].result
                = RunAlone(adapters.call[k], adapters.call[k].env).value

\* Two invocations overlap: the one that started first is still reading its
\* output when the other, a successful call of the other adapter, has
\* returned.
C25_Witness ==
    \E a, b \in Invocations :
      /\ adapters.call[a].n < adapters.call[b].n
      /\ adapters.call[a].pc = "read"
      /\ adapters.call[b].pc = "returned"
      /\ adapters.call[b].result.success
      /\ adapters.call[a].adapter # adapters.call[b].adapter


----------------------------------------------------------------------------
(* Properties of the start of a worker (specification SpecStartup) *)

\* The resource of service a was not available in this state.
Unavailable(a, state) ==
    (a \in {"stt", "tts"} /\ state = "absent") \/ (a = "llm" /\ state = "refused")

\* C28: a service whose resource was unavailable when its constructor ran
\* (model file absent, backend refusing connections) is never bound: the
\* constructor raised, the import of the router failed with that exception,
\* and no adapter is ever called.  A service that exists saw its model file
\* present, or the backend answering, when it was constructed.
C28_ConstructionFailsFast ==
    /\ \A a \in DOMAIN adapters.seen :
         adapters.seen[a] # None /\ Unavailable(a, adapters.seen[a])
           => /\ a \notin DOMAIN adapters.service
              /\ adapters.router = "failed"
              /\ adapters.import_error.exc \in {"FileNotFoundError", "ConnectionError"}
              /\ adapters.invoked = {}
    /\ \A a \in DOMAIN adapters.service :
         adapters.seen[a] \in {"present", "up", "up_without_model"}
    /\ adapters.invoked \subseteq DOMAIN adapters.service

\* The voice model was absent when the synthesis service was constructed,
\* after the two other services had been built: the import has failed.
C28_Witness ==
    /\ adapters.seen.tts = "absent"
    /\ DOMAIN adapters.service = {"stt", "llm"}
    /\ adapters.router = "failed"
    /\ adapters.import_error.exc = "FileNotFoundError"


----------------------------------------------------------------------------
(* Properties of the payload of a generation (specification SpecPayload) *)

\* The entry has a non-empty role and a non-empty content.
IsComplete(msg) ==
    /\ "role" \in DOMAIN msg /\ msg.role \notin {None, ""}
    /\ "content" \in DOMAIN msg /\ msg.content \notin {None, ""}

\* The complete entries of a history, in their order.
CompleteEntries(conversation_history) ==
    IF conversation_history.given
    THEN SelectSeq(conversation_history.entries, IsComplete)
    ELSE <<>>

\* C32: the messages generate and generate_async post are exactly the
\* entries of the conversation history that have a non-empty role and a
\* non-empty content, in their order, each reduced to role and content; with
\* no history, an empty one or one without such an entry, the payload has no
\* messages field.
C32_MessagesAreCompleteEntries ==
    \A i \in DOMAIN calls :
      LET expected == CompleteEntries(locals.conversation_history)
          payload == calls[i].payload
      IN  IF expected = <<>>
          THEN "messages" \notin DOMAIN payload
          ELSE /\ "messages" \in DOMAIN payload
               /\ Len(payload.messages) = Len(expected)
               /\ \A j \in DOMAIN expected :
                    /\ DOMAIN payload.messages[j] = {"role", "content"}
                    /\ payload.messages[j].role = expected[j].role
                    /\ payload.messages[j].content = expected[j].content

\* generate_async posted a history of two entries, the first without
\* content, the second complete and with a further key: one message.
C32_Witness ==
    /\ calls # <<>>
    /\ calls[1].adapter = "generate_async"
    /\ locals.conversation_history.given
    /\ locals.conversation_history.entries
         = <<[role |-> "user"], [role |-> "user", content |-> "hi", name |-> "bob"]>>
    /\ calls[1].payload.messages = <<[role |-> "user", content |-> "hi"]>>

\* The listing request came back without a transport error and with a
\* successful HTTP status.
ListingFetched(state) ==
    state \in {"up", "up_without_model", "not_json", "not_object"}

\* C33: once the constructor of the generation service has run, the service
\* exists whenever the listing request had come back without a transport or
\* HTTP-status error, the configured model being listed or not; a
\* construction that failed had met a transport error or an HTTP error
\* status.
C33_ConstructionFailsOnlyOnTransport ==
    adapters.seen.llm # None =>
      /\ ListingFetched(adapters.seen.llm) => "llm" \in DOMAIN adapters.service
      /\ "llm" \notin DOMAIN adapters.service
           => adapters.seen.llm \in {"refused", "http_error"}

============================================================================
